---- MODULE Spec2Model ----
(***************************************************************************)
(* D2Q9 lattice-Boltzmann solver (LBM.cpp) and its driver (main.cpp).      *)
(*                                                                         *)
(* Storage is modelled as the driver allocates it: one flat array per      *)
(* make_unique<double[]>, addressed through the layout_right mapping of    *)
(* the mdspan views built in main.                                         *)
(*                                                                         *)
(* A run computes in one of two arithmetics.  "binary64" is the arithmetic *)
(* of the compiled program: IEEE-754 doubles, every operation rounded to   *)
(* nearest, ties to even, without fused multiply-add; sqrt, cos and sin    *)
(* are tabulated at the arguments taylor_green passes.  "exact" is the     *)
(* arithmetic of the reals, on rationals <<numerator, denominator>> in     *)
(* lowest terms; a rational whose numerator or denominator leaves the      *)
(* range +-Lim is the marker Wide, and a kernel call that would produce    *)
(* Wide is not taken (the run is cut there).                               *)
(***************************************************************************)
EXTENDS Integers, Sequences, FiniteSets

----------------------------------------------------------------------------
(* Bounds of the exploration *)

MaxNX == 3
MaxNY == 3
MaxSites == 4
MaxSteps == 3
MaxEvery == 2

\* largest numerator / denominator of the exact arithmetic
Lim == 1000000000

----------------------------------------------------------------------------
(* Exact arithmetic: rationals in lowest terms *)

\* a value neither arithmetic represents (out of range, inf, nan)
Wide == <<0, 0>>

IsWide(p) == Len(p) = 2 /\ p[2] = 0

Abs(a) == IF a < 0 THEN -a ELSE a

RECURSIVE Gcd(_, _)
Gcd(a, b) == IF b = 0 THEN a ELSE Gcd(b, a % b)

FitsMul(a, b) == a = 0 \/ b = 0 \/ Abs(a) <= Lim \div Abs(b)

\* n/d with the common factor g taken out
Reduced(n, d, g) == <<n \div g, d \div g>>

Rat(n, d) == Reduced(n, d, Gcd(Abs(n), d))

\* (a/b) * (c/d), the fractions a/d and c/b being in lowest terms
Product(a, c, b, d) ==
    IF FitsMul(a, c) /\ FitsMul(b, d) THEN <<a * c, b * d>> ELSE Wide

Cancelled(p, q, g1, g2) ==
    Product(p[1] \div g1, q[1] \div g2, p[2] \div g2, q[2] \div g1)

RMul(p, q) == Cancelled(p, q, Gcd(Abs(p[1]), q[2]), Gcd(Abs(q[1]), p[2]))

InRange(r) == IF Abs(r[1]) <= Lim THEN r ELSE Wide

\* p + q over the common denominator pd * q[2], pd = p[2]/g, qd = q[2]/g
OverCommon(p, q, pd, qd) ==
    IF FitsMul(p[1], qd) /\ FitsMul(q[1], pd) /\ FitsMul(pd, q[2])
    THEN InRange(Rat(p[1] * qd + q[1] * pd, pd * q[2]))
    ELSE Wide

SumOver(p, q, g) == OverCommon(p, q, p[2] \div g, q[2] \div g)

RAdd(p, q) == SumOver(p, q, Gcd(p[2], q[2]))

\* 1/p
RInv(p) ==
    IF p[1] = 0 THEN Wide
    ELSE IF p[1] < 0 THEN <<-p[2], -p[1]>> ELSE <<p[2], p[1]>>

----------------------------------------------------------------------------
(* binary64 arithmetic.  <<s, e, h, l>> is the double (-1)^s * M * 2^e     *)
(* with the 53-bit significand M = h*2^28 + l, 2^52 <= M < 2^53; zero is   *)
(* <<0, 0, 0, 0>>.  The sign of a zero is not kept: no operation of the    *)
(* kernels divides by a zero or otherwise depends on it.  Subnormals,      *)
(* infinities and NaNs are Wide.  A result below the normal range is       *)
(* rounded once on the grid of the subnormals (multiples of 2^-1074): it   *)
(* is zero, the smallest normal double 2^-1022, or a subnormal.            *)

FZero == <<0, 0, 0, 0>>

P14 == 16384
P28 == 268435456

\* number of bits of x, 0 <= x < 2^31
RECURSIVE BitLen(_)
BitLen(x) ==
    IF x < 16 THEN <<0, 1, 2, 2, 3, 3, 3, 3, 4, 4, 4, 4, 4, 4, 4, 4>>[x + 1]
    ELSE 4 + BitLen(x \div 16)

\* <<yh, yl, st>>: floor((xh*2^28 + xl) / 2^k), st = 1 when a 1 was shifted out
ShiftRightSticky(xh, xl, k) ==
    IF k = 0 THEN <<xh, xl, 0>>
    ELSE IF k < 28
    THEN <<xh \div 2^k,
           (xh % 2^k) * 2^(28 - k) + xl \div 2^k,
           IF xl % 2^k = 0 THEN 0 ELSE 1>>
    ELSE IF k < 58
    THEN <<0, xh \div 2^(k - 28),
           IF xh % 2^(k - 28) = 0 /\ xl = 0 THEN 0 ELSE 1>>
    ELSE <<0, 0, IF xh = 0 /\ xl = 0 THEN 0 ELSE 1>>

\* (xh*2^28 + xl) * 2^k, for a result below 2^53
ShiftLeft(xh, xl, k) ==
    IF k < 28
    THEN <<xh * 2^k + xl \div 2^(28 - k), (xl % 2^(28 - k)) * 2^k>>
    ELSE <<xl * 2^(k - 28), 0>>

\* the double with the 53-bit significand h*2^28 + l; Wide beyond the largest
\* double (inf) and below the smallest normal one
Pack(s, e, h, l) ==
    IF e < -1074 \/ e > 971 THEN Wide ELSE <<s, e, h, l>>

\* the double with the 53-bit significand mm = <<h, l>>
PackPair(s, e, mm) == Pack(s, e, mm[1], mm[2])

\* the significand h0*2^28 + l0 after rounding, l0 < 2^29, carried into the
\* exponent when it reaches 2^53
Carried(s, e, h0, l0) ==
    IF h0 + l0 \div P28 = 2 * 16777216
    THEN Pack(s, e + 1, 16777216, 0)
    ELSE Pack(s, e, h0 + l0 \div P28, l0 % P28)

\* the low part of y = <<yh, yl, st>> halved and rounded to nearest, ties to
\* even: y holds the magnitude down to one bit below the last place kept and
\* whether anything follows; the result is below 2^29
RoundedLow(y) ==
    y[2] \div 2 + (y[1] % 2) * (P28 \div 2)
    + (IF y[2] % 2 = 1 /\ (y[3] = 1 \/ (y[2] \div 2) % 2 = 1) THEN 1 ELSE 0)

\* round to nearest, ties to even: y holds the 54 leading bits of the magnitude
RoundEven(s, e, y) == Carried(s, e, y[1] \div 2, RoundedLow(y))

\* y with the sticky bit st added
Sticky(y, st) == <<y[1], y[2], IF st = 1 \/ y[3] = 1 THEN 1 ELSE 0>>

\* a magnitude below 2^-1022 rounded to the multiple h0*2^28 + l0 of 2^-1074:
\* 0, the smallest normal double 2^-1022, or a subnormal (Wide)
Tiny(s, h0, l0) ==
    IF h0 + l0 \div P28 = 0 /\ l0 % P28 = 0 THEN FZero
    ELSE IF h0 + l0 \div P28 = 16777216 /\ l0 % P28 = 0 THEN <<s, -1074, 16777216, 0>>
    ELSE Wide

\* gradual underflow: the magnitude (xh*2^28 + xl + r) * 2^(-1074 - k), below
\* 2^-1022, rounded once to a multiple of 2^-1074
Underflowed(s, y) == Tiny(s, y[1] \div 2, RoundedLow(y))

\* RoundPack for a magnitude xh*2^28 + xl of len bits
Normalized(s, e, xh, xl, st, len) ==
    IF len = 0 THEN FZero
    ELSE IF e + len - 53 < -1074
    THEN IF e >= -1074 THEN Wide
         ELSE Underflowed(s, Sticky(ShiftRightSticky(xh, xl, -1075 - e), st))
    ELSE IF len <= 53
    THEN PackPair(s, e - (53 - len), ShiftLeft(xh, xl, 53 - len))
    ELSE RoundEven(s, e + (len - 53), Sticky(ShiftRightSticky(xh, xl, len - 54), st))

\* the double nearest to (-1)^s * (xh*2^28 + xl + r) * 2^e, where 0 < r < 1
\* when st = 1 and r = 0 when st = 0
RoundPack(s, e, xh, xl, st) ==
    Normalized(s, e, xh, xl, st,
               IF xh > 0 THEN 28 + BitLen(xh) ELSE BitLen(xl))

FNeg(a) == IF a = FZero THEN a ELSE <<1 - a[1], a[2], a[3], a[4]>>

\* |a| >= |b| for nonzero doubles
MagGeq(a, b) ==
    \/ a[2] > b[2]
    \/ a[2] = b[2] /\ (a[3] > b[3] \/ (a[3] = b[3] /\ a[4] >= b[4]))

\* the significand of a with three more bits, as <<high, low>>
Widened(a) == <<a[3] * 8 + a[4] \div 33554432, (a[4] % 33554432) * 8>>

\* the significand of b with three more bits, shifted to the exponent of a
Aligned(a, b) == ShiftRightSticky(Widened(b)[1], Widened(b)[2], a[2] - b[2])

\* the sum (sg = 1) or difference (sg = -1) of the widened significand of a
\* and t = <<high, low, sticky>>, xl being its low part before the carry or
\* borrow; a sticky bit of t is borrowed from the difference
Combined(a, sg, t, xl) ==
    RoundPack(a[1], a[2] - 3, Widened(a)[1] + sg * t[1] + xl \div P28, xl % P28, t[3])

SumOrDifference(a, sg, t) ==
    Combined(a, sg, t,
             IF sg = 1 THEN Widened(a)[2] + t[2] ELSE Widened(a)[2] - t[2] - t[3])

\* a + b for nonzero doubles with |a| >= |b|: the sum is formed with three
\* more bits and a sticky bit, then rounded
FAddOrdered(a, b) ==
    SumOrDifference(a, IF a[1] = b[1] THEN 1 ELSE -1, Aligned(a, b))

\* the operand of larger (which = 1) or smaller (which = 2) magnitude
Ordered(a, b, which) == IF MagGeq(a, b) = (which = 1) THEN a ELSE b

FAdd(a, b) ==
    IF a = FZero THEN b
    ELSE IF b = FZero THEN a
    ELSE FAddOrdered(Ordered(a, b, 1), Ordered(a, b, 2))

\* the significand as limbs of 14 bits, lowest first
Limbs(a) == <<a[4] % P14, a[4] \div P14, a[3] % P14, a[3] \div P14>>

\* the column sums of the schoolbook product of two significands given by
\* their limbs, lowest column first
Columns(a, b) ==
    << a[1] * b[1],
       a[1] * b[2] + a[2] * b[1],
       a[1] * b[3] + a[2] * b[2] + a[3] * b[1],
       a[1] * b[4] + a[2] * b[3] + a[3] * b[2] + a[4] * b[1],
       a[2] * b[4] + a[3] * b[3] + a[4] * b[2],
       a[3] * b[4] + a[4] * b[3],
       a[4] * b[4] >>

\* the limbs of 14 bits of the number with the columns col[i..], c carried in
RECURSIVE Carries(_, _, _)
Carries(col, i, c) ==
    IF i > Len(col) THEN <<c>>
    ELSE <<(col[i] + c) % P14>> \o Carries(col, i + 1, (col[i] + c) \div P14)

\* the double of the product c, eight limbs of 14 bits: the 57 leading bits
\* and a sticky bit for the 49 below them, rounded
FromLimbs(s, e, c) ==
    RoundPack(s, e + 49,
              (c[6] + c[7] * P14) \div 128 + c[8] * 2097152,
              (c[4] + c[5] * P14) \div 128 + (c[6] % 128) * 2097152,
              IF c[1] = 0 /\ c[2] = 0 /\ c[3] = 0 /\ c[4] % 128 = 0 THEN 0 ELSE 1)

\* the product of two significands given by their limbs, rounded
FMulLimbs(s, e, a, b) == FromLimbs(s, e, Carries(Columns(a, b), 1, 0))

FMul(a, b) ==
    IF a = FZero \/ b = FZero THEN FZero
    ELSE FMulLimbs((a[1] + b[1]) % 2, a[2] + b[2], Limbs(a), Limbs(b))

\* r = <<remainder high, remainder low, quotient high, quotient low>> of a
\* long division, remainder and quotient doubled
Doubled(r) ==
    <<2 * r[1] + (2 * r[2]) \div P28, (2 * r[2]) % P28,
      2 * r[3] + (2 * r[4]) \div P28, (2 * r[4]) % P28>>

\* the remainder of r holds the divisor dh*2^28 + dl
HoldsDivisor(r, dh, dl) == r[1] > dh \/ (r[1] = dh /\ r[2] >= dl)

\* r with the divisor taken from the remainder and the quotient bit set
Subtracted(r, dh, dl) ==
    <<r[1] - dh + (r[2] - dl) \div P28, (r[2] - dl) % P28, r[3], r[4] + 1>>

\* n more quotient bits of the long division by dh*2^28 + dl
RECURSIVE DivBits(_, _, _, _)
DivBits(r, dh, dl, n) ==
    IF n = 0 THEN r
    ELSE IF HoldsDivisor(Doubled(r), dh, dl)
    THEN DivBits(Subtracted(Doubled(r), dh, dl), dh, dl, n - 1)
    ELSE DivBits(Doubled(r), dh, dl, n - 1)

\* the first quotient bit of significand a by significand b, and its remainder
FirstBit(a, b) ==
    IF HoldsDivisor(<<a[3], a[4]>>, b[3], b[4])
    THEN Subtracted(<<a[3], a[4], 0, 0>>, b[3], b[4])
    ELSE <<a[3], a[4], 0, 0>>

\* the double of the quotient r[3]*2^28 + r[4], sticky when a remainder is left
Quotient(s, e, r) ==
    RoundPack(s, e, r[3], r[4], IF r[1] = 0 /\ r[2] = 0 THEN 0 ELSE 1)

\* a / b: 57 quotient bits by long division and a sticky bit, then rounded;
\* a division by zero gives inf or nan
FDiv(a, b) ==
    IF b = FZero THEN Wide
    ELSE IF a = FZero THEN FZero
    ELSE Quotient((a[1] + b[1]) % 2, a[2] - b[2] - 56,
                  DivBits(FirstBit(a, b), b[3], b[4], 56))

\* the double of the literal n.0/d.0, 0 <= n < 2^28, 0 < d < 2^28
Binary64(n, d) == FDiv(RoundPack(0, 0, 0, n, 0), RoundPack(0, 0, 0, d, 0))

----------------------------------------------------------------------------
(* State *)

VARIABLES
    arith,      \* the arithmetic of the run: "binary64" or "exact"
    lbm,        \* the configuration object: NX, NY, NSTEPS, NSAVE, NMSG, nu, rho0, u_max, computeFlowProperties
    mem,        \* the six arrays of main: ptr_f0, ptr_f1, ptr_f2, ptr_rho, ptr_ux, ptr_uy
    f1,         \* the array the view f1 of main refers to
    f2,         \* the array the view f2 of main refers to
    n,          \* loop counter of main
    pc,         \* position of main
    k,          \* which of the three save_scalar calls of a group is next
    io,         \* what the save_scalar call that has just returned did
    rep,        \* what the latest report_flow_properties call printed
    acc,        \* the array accesses of the kernel call that has just returned
    gens,       \* per executed timestep, the arrays stream_collide_save read and wrote
    published,  \* timestep label of the values held by ptr_rho, ptr_ux, ptr_uy
    mass0,      \* total of all populations after init_equilibrium
    pending,    \* sites of the running sweep not yet updated (site-wise sweep)
    expect      \* the arrays of the row-by-row sweep after as many sites (site-wise sweep)

vars == <<arith, lbm, mem, f1, f2, n, pc, k, io, rep, acc, gens, published, mass0, pending, expect>>

----------------------------------------------------------------------------
(* The operations of the code's expressions, in the arithmetic of the run *)

Arithmetics == {"binary64", "exact"}

\* the literals of the code in both arithmetics; the double of the literal
\* n.0/d.0 is Binary64(n, d)
Numbers ==
    [binary64 |->
        [zero |-> <<0, 0, 0, 0>>,
         one |-> <<0, -52, 16777216, 0>>,
         half |-> <<0, -53, 16777216, 0>>,
         quarter |-> <<0, -54, 16777216, 0>>,
         oneAndHalf |-> <<0, -52, 25165824, 0>>,
         two |-> <<0, -51, 16777216, 0>>,
         three |-> <<0, -51, 25165824, 0>>,
         six |-> <<0, -50, 25165824, 0>>,
         four |-> <<0, -50, 16777216, 0>>],
     exact |->
        [zero |-> <<0, 1>>, one |-> <<1, 1>>, half |-> <<1, 2>>, quarter |-> <<1, 4>>,
         oneAndHalf |-> <<3, 2>>, two |-> <<2, 1>>, three |-> <<3, 1>>, six |-> <<6, 1>>,
         four |-> <<4, 1>>]]

Zero == Numbers[arith].zero
One == Numbers[arith].one
Half == Numbers[arith].half
Quarter == Numbers[arith].quarter
OneAndHalf == Numbers[arith].oneAndHalf
Two == Numbers[arith].two
Three == Numbers[arith].three
Six == Numbers[arith].six

IsBinary64(p) == Len(p) = 4

Neg(p) ==
    IF IsWide(p) THEN Wide
    ELSE IF IsBinary64(p) THEN FNeg(p) ELSE <<-p[1], p[2]>>

Mul(p, q) ==
    IF IsWide(p) \/ IsWide(q) THEN Wide
    ELSE IF IsBinary64(p) THEN FMul(p, q) ELSE RMul(p, q)

Add(p, q) ==
    IF IsWide(p) \/ IsWide(q) THEN Wide
    ELSE IF IsBinary64(p) THEN FAdd(p, q) ELSE RAdd(p, q)

Sub(p, q) == Add(p, Neg(q))

Div(p, q) ==
    IF IsWide(p) \/ IsWide(q) THEN Wide
    ELSE IF IsBinary64(p) THEN FDiv(p, q)
    ELSE IF q[1] = 0 THEN Wide ELSE RMul(p, RInv(q))

\* 1.0/p
Inv(p) == Div(One, p)

\* start + s[1] + ... + s[i], added from the left
RECURSIVE SumFrom(_, _, _)
SumFrom(start, s, i) == IF i = 0 THEN start ELSE Add(SumFrom(start, s, i - 1), s[i])

----------------------------------------------------------------------------
(* Lattice constants (LBM.h) *)

ndir == 9

\* the weights 4/9, 1/9, 1/36 in both arithmetics; the doubles are
\* Binary64(4, 9), Binary64(1, 9), Binary64(1, 36)
Weights ==
    [binary64 |->
        [w0 |-> <<0, -54, 29826161, 208783132>>,
         ws |-> <<0, -56, 29826161, 208783132>>,
         wd |-> <<0, -58, 29826161, 208783132>>],
     exact |-> [w0 |-> <<4, 9>>, ws |-> <<1, 9>>, wd |-> <<1, 36>>]]

w0 == Weights[arith].w0
ws == Weights[arith].ws
wd == Weights[arith].wd

\* sizeof(double)
SizeofDouble == 8

----------------------------------------------------------------------------
(* Views: layout_right mappings of the mdspans built in main *)

\* third extent of the views f1 and f2
m == ndir - 1

Idx2(x, y) == x * lbm.NY + y

Idx3(x, y, d) == (x * lbm.NY + y) * m + d

Sites == {<<x, y>> : x \in 0..(lbm.NX - 1), y \in 0..(lbm.NY - 1)}

\* the order the loops "for y ... for x ..." visit the sites in
SiteOrder == [i \in 1..(lbm.NX * lbm.NY) |-> <<(i - 1) % lbm.NX, (i - 1) \div lbm.NX>>]

\* bytes of one scalar field; main also uses it as an element count
mem_size_scalar == SizeofDouble * lbm.NX * lbm.NY

----------------------------------------------------------------------------
(* Equilibrium and collision arithmetic *)

\* w rho [ omusq + (ci . 3u){ 1 + (1/2) (ci . 3u) } ]
Feq(wr, omusq, cidot3u) ==
    Mul(wr, Add(omusq, Mul(cidot3u, Add(One, Mul(Half, cidot3u)))))

\* 1 - (3/2) u.u
Omusq(ux, uy) == Sub(One, Mul(OneAndHalf, Add(Mul(ux, ux), Mul(uy, uy))))

\* ci . 3u for the directions 1..8, in the order the code assigns cidot3u
Cidot3u(tux, tuy) ==
    << tux, tuy, Neg(tux), Neg(tuy),
       Add(tux, tuy), Sub(tuy, tux), Neg(Add(tux, tuy)), Sub(tux, tuy) >>

\* w0r*omusq and wsr*(...), wdr*(...) of init_equilibrium, c = cidot3u
EquilibriumFrom(w0r, wsr, wdr, omusq, c) ==
    [i \in 1..ndir |->
       IF i = 1 THEN Mul(w0r, omusq)
       ELSE Feq(IF i <= 5 THEN wsr ELSE wdr, omusq, c[i - 1])]

\* the nine values init_equilibrium stores for one site: <<f0, f1[.,.,1], ..., f1[.,.,8]>>
EquilibriumAt(rho, ux, uy) ==
    EquilibriumFrom(Mul(w0, rho), Mul(ws, rho), Mul(wd, rho), Omusq(ux, uy),
                    Cidot3u(Mul(Three, ux), Mul(Three, uy)))

\* 2.0/(6.0*nu+1.0)
Tauinv == Div(Two, Add(Mul(Six, lbm.nu), One))

\* rho = ft0+ft1+...+ft8
Density(ft) == Add(Add(Add(Add(Add(Add(Add(Add(ft[1], ft[2]), ft[3]), ft[4]), ft[5]), ft[6]), ft[7]), ft[8]), ft[9])

\* rhoinv*(ft1+ft5+ft8-(ft3+ft6+ft7))
VelocityX(ft, rhoinv) ==
    Mul(rhoinv, Sub(Add(Add(ft[2], ft[6]), ft[9]), Add(Add(ft[4], ft[7]), ft[8])))

\* rhoinv*(ft2+ft5+ft6-(ft4+ft7+ft8))
VelocityY(ft, rhoinv) ==
    Mul(rhoinv, Sub(Add(Add(ft[3], ft[6]), ft[7]), Add(Add(ft[5], ft[8]), ft[9])))

\* faulty relaxation: the old population is dropped, only the equilibrium
\* term twr*(...) is stored
RelaxNoMemory(omtauinv, ft, twr, omusq, cidot3u) ==
    Feq(twr, omusq, cidot3u)

\* omtauinv*ft + twr*(omusq + cidot3u*(1.0+0.5*cidot3u))
Relax(omtauinv, ft, twr, omusq, cidot3u) ==
    Add(Mul(omtauinv, ft), Feq(twr, omusq, cidot3u))

\* the moments and the stores of the loop body: f0(x,y) = omtauinv*ft0 +
\* tw0r*omusq and f2(x,y,i) for i = 1..8, c = cidot3u
Relaxed(ft, rho, ux, uy, omusq, c, omtauinv, tw0r, twsr, twdr) ==
    [rho |-> rho, ux |-> ux, uy |-> uy,
     out |-> [i \in 1..ndir |->
                IF i = 1 THEN Add(Mul(omtauinv, ft[1]), Mul(tw0r, omusq))
                ELSE Relax(omtauinv, ft[i], IF i <= 5 THEN twsr ELSE twdr,
                           omusq, c[i - 1])]]

\* omusq, cidot3u, omtauinv = 1.0 - tauinv and tw0r = tauinv*w0*rho,
\* twsr = tauinv*ws*rho, twdr = tauinv*wd*rho
WithMoments(ft, tauinv, rho, ux, uy) ==
    Relaxed(ft, rho, ux, uy, Omusq(ux, uy),
            Cidot3u(Mul(Three, ux), Mul(Three, uy)),
            Sub(One, tauinv),
            Mul(Mul(tauinv, w0), rho), Mul(Mul(tauinv, ws), rho),
            Mul(Mul(tauinv, wd), rho))

\* ux and uy from rhoinv = 1.0/rho
WithDensity(ft, rho, rhoinv) ==
    WithMoments(ft, Tauinv, rho, VelocityX(ft, rhoinv), VelocityY(ft, rhoinv))

\* rhoinv = 1.0/rho
WithSum(ft, rho) == WithDensity(ft, rho, Inv(rho))

\* moments and relaxed populations of one site from its nine loaded populations
\* ft = <<ft0, ft1, ..., ft8>>
Collide(ft) == WithSum(ft, Density(ft))

----------------------------------------------------------------------------
(* Periodic neighbours and the populations one site loads *)

xp1(x) == (x + 1) % lbm.NX
yp1(y) == (y + 1) % lbm.NY
\* faulty western neighbour: the eastern one
xm1East(x) == (x + 1) % lbm.NX

xm1(x) == (lbm.NX + x - 1) % lbm.NX
ym1(y) == (lbm.NY + y - 1) % lbm.NY

\* view coordinates <<x, y, d>> of the loads ft1..ft8 of site (x,y)
Loads(x, y) ==
    << <<xm1(x), y, 1>>, <<x, ym1(y), 2>>, <<xp1(x), y, 3>>, <<x, yp1(y), 4>>,
       <<xm1(x), ym1(y), 5>>, <<xp1(x), ym1(y), 6>>,
       <<xp1(x), yp1(y), 7>>, <<xm1(x), yp1(y), 8>> >>

\* faulty call: the view f1 passed for both parameters
KernelArgsInPlace == [src |-> f1, dst |-> f1]

\* the arrays behind the parameters f1 (read) and f2 (written) of the kernel call
KernelArgs == [src |-> f1, dst |-> f2]

\* the nine populations the loop body loads for site (x,y) from the arrays mm
Loaded(mm, src, x, y) ==
    [i \in 1..ndir |->
       IF i = 1 THEN mm.ptr_f0[Idx2(x, y)]
       ELSE mm[src][Idx3(Loads(x, y)[i - 1][1], Loads(x, y)[i - 1][2], Loads(x, y)[i - 1][3])]]

\* array arr after the stores arr[Idx3(x,y,d)] = vals[d+1] for d = 1..8
Store8(arr, x, y, vals) ==
    [o \in DOMAIN arr |->
       IF o \in {Idx3(x, y, d) : d \in 1..(ndir - 1)}
       THEN vals[o - Idx3(x, y, 0) + 1]
       ELSE arr[o]]

\* the arrays mm after the stores of the loop body for site (x,y), c being the
\* moments and relaxed populations computed from the loaded populations
Stored(mm, dst, x, y, save, c) ==
    [mm EXCEPT
       !.ptr_rho[Idx2(x, y)] = IF save THEN c.rho ELSE @,
       !.ptr_ux[Idx2(x, y)] = IF save THEN c.ux ELSE @,
       !.ptr_uy[Idx2(x, y)] = IF save THEN c.uy ELSE @,
       !.ptr_f0[Idx2(x, y)] = c.out[1],
       ![dst] = Store8(@, x, y, c.out)]

\* one iteration of the loop body of stream_collide_save, on the arrays mm
SiteUpdate(mm, src, dst, x, y, save) ==
    Stored(mm, dst, x, y, save, Collide(Loaded(mm, src, x, y)))

\* every value the loop body stored for site (x,y) is one the arithmetic represents
Representable(mm, dst, x, y) ==
    /\ ~IsWide(mm.ptr_f0[Idx2(x, y)])
    /\ \A d \in 1..(ndir - 1) : ~IsWide(mm[dst][Idx3(x, y, d)])
    /\ ~IsWide(mm.ptr_rho[Idx2(x, y)])
    /\ ~IsWide(mm.ptr_ux[Idx2(x, y)])
    /\ ~IsWide(mm.ptr_uy[Idx2(x, y)])

----------------------------------------------------------------------------
(* Array accesses of the kernels, as <<view, indices>> and as array cell *)

Access(op, view, buf, x, y, d, off, site) ==
    [op |-> op, view |-> view, buf |-> buf, x |-> x, y |-> y, d |-> d,
     off |-> off, site |-> site]

\* accesses of one iteration of the loop body of stream_collide_save
KernelAccesses(src, dst, x, y, save) ==
    LET ld == Loads(x, y)
        s == <<x, y>>
    IN  {Access("r", "f0", "ptr_f0", x, y, 0, Idx2(x, y), s)}
        \cup {Access("r", "f1", src, ld[i][1], ld[i][2], ld[i][3],
                     Idx3(ld[i][1], ld[i][2], ld[i][3]), s) : i \in 1..(ndir - 1)}
        \cup (IF save
              THEN {Access("w", v[1], v[2], x, y, 0, Idx2(x, y), s) :
                       v \in {<<"r", "ptr_rho">>, <<"u", "ptr_ux">>, <<"v", "ptr_uy">>}}
              ELSE {})
        \cup {Access("w", "f0", "ptr_f0", x, y, 0, Idx2(x, y), s)}
        \cup {Access("w", "f2", dst, x, y, d, Idx3(x, y, d), s) : d \in 1..(ndir - 1)}

\* accesses of one iteration of the loop body of init_equilibrium
InitAccesses(dst, x, y) ==
    LET s == <<x, y>>
    IN  {Access("r", v[1], v[2], x, y, 0, Idx2(x, y), s) :
            v \in {<<"r", "ptr_rho">>, <<"u", "ptr_ux">>, <<"v", "ptr_uy">>}}
        \cup {Access("w", "f0", "ptr_f0", x, y, 0, Idx2(x, y), s)}
        \cup {Access("w", "f1", dst, x, y, d, Idx3(x, y, d), s) : d \in 1..(ndir - 1)}

----------------------------------------------------------------------------
(* Initial fields: taylor_green at t = 0 *)

\* (n/d)*sqrt(k) as <<n, d, k>>; k = 0 stands for a value not tabulated
Surd(nn, d, kk) == <<nn, d, kk>>

\* cos(kx*X) = cos((2x+1)*pi/N) for kx = 2*pi/N, X = x+0.5
CosAt(N, x) ==
    CASE N = 1 -> Surd(-1, 1, 1)
      [] N = 2 -> Surd(0, 1, 1)
      [] N = 3 -> <<Surd(1, 2, 1), Surd(-1, 1, 1), Surd(1, 2, 1)>>[x + 1]
      [] N = 4 -> <<Surd(1, 2, 2), Surd(-1, 2, 2), Surd(-1, 2, 2), Surd(1, 2, 2)>>[x + 1]
      [] OTHER -> Surd(1, 1, 0)

\* sin(kx*X) = sin((2x+1)*pi/N)
SinAt(N, x) ==
    CASE N = 1 -> Surd(0, 1, 1)
      [] N = 2 -> <<Surd(1, 1, 1), Surd(-1, 1, 1)>>[x + 1]
      [] N = 3 -> <<Surd(1, 2, 3), Surd(0, 1, 1), Surd(-1, 2, 3)>>[x + 1]
      [] N = 4 -> <<Surd(1, 2, 2), Surd(1, 2, 2), Surd(-1, 2, 2), Surd(-1, 2, 2)>>[x + 1]
      [] OTHER -> Surd(1, 1, 0)

\* cos(2.0*kx*X) = cos(2*(2x+1)*pi/N)
CosTwiceAt(N, x) ==
    CASE N = 1 -> Surd(1, 1, 1)
      [] N = 2 -> Surd(-1, 1, 1)
      [] N = 3 -> <<Surd(-1, 2, 1), Surd(1, 1, 1), Surd(-1, 2, 1)>>[x + 1]
      [] N = 4 -> Surd(0, 1, 1)
      [] OTHER -> Surd(1, 1, 0)

\* sqrt(a/b) = sqrt(a*b)/b
SqrtRatio(a, b) ==
    CASE a * b = 1 -> Surd(1, b, 1)
      [] a * b = 2 -> Surd(1, b, 2)
      [] a * b = 3 -> Surd(1, b, 3)
      [] a * b = 4 -> Surd(2, b, 1)
      [] a * b = 6 -> Surd(1, b, 6)
      [] a * b = 8 -> Surd(2, b, 2)
      [] a * b = 9 -> Surd(3, b, 1)
      [] a * b = 12 -> Surd(2, b, 3)
      [] a * b = 16 -> Surd(4, b, 1)
      [] OTHER -> Surd(1, 1, 0)

\* the product of two tabulated values
SurdMul(p, q) ==
    IF p[1] = 0 \/ q[1] = 0 THEN Surd(0, 1, 1)
    ELSE IF p[3] = 0 \/ q[3] = 0 THEN Surd(1, 1, 0)
    ELSE IF p[3] = q[3] THEN Surd(p[1] * q[1] * p[3], p[2] * q[2], 1)
    ELSE IF p[3] = 1 \/ q[3] = 1 THEN Surd(p[1] * q[1], p[2] * q[2], p[3] * q[3])
    ELSE IF p[3] * q[3] = 6 THEN Surd(p[1] * q[1], p[2] * q[2], 6)
    ELSE IF p[3] * q[3] = 12 THEN Surd(2 * p[1] * q[1], p[2] * q[2], 3)
    ELSE Surd(3 * p[1] * q[1], p[2] * q[2], 2)

\* the tabulated value as a number of the exact arithmetic, Wide when irrational
SurdValue(p) ==
    IF p[1] = 0 THEN Rat(0, 1) ELSE IF p[3] = 1 THEN Rat(p[1], p[2]) ELSE Wide

\* M_PI as a double
M_PI == <<0, -51, 26353589, 71576856>>

\* cos(kx*X), sin(kx*X) and cos(2.0*kx*X) as the C library returns them for
\* kx = 2.0*M_PI/N and X = x+0.5, N = 1..4 (row) and x = 0..N-1: the double
\* nearest to the cosine or sine of the double argument
CosTable ==
    <<<<<<1, -52, 16777216, 0>>>>,
      <<<<0, -106, 18506339, 51665927>>, <<1, -105, 27759508, 211716618>>>>,
      <<<<0, -53, 16777216, 1>>, <<1, -52, 16777216, 0>>, <<0, -54, 33554431, 268435444>>>>,
      <<<<0, -53, 23726566, 109001677>>, <<1, -53, 23726566, 109001676>>, <<1, -53, 23726566, 109001678>>, <<0, -53, 23726566, 109001675>>>>>>

SinTable ==
    <<<<<<0, -105, 18506339, 51665927>>>>,
      <<<<0, -52, 16777216, 0>>, <<1, -52, 16777216, 0>>>>,
      <<<<0, -53, 29058990, 140004522>>, <<0, -105, 18506339, 51665927>>, <<1, -53, 29058990, 140004526>>>>,
      <<<<0, -53, 23726566, 109001676>>, <<0, -53, 23726566, 109001677>>, <<1, -53, 23726566, 109001676>>, <<1, -53, 23726566, 109001678>>>>>>

CosTwiceTable ==
    <<<<<<0, -52, 16777216, 0>>>>,
      <<<<1, -52, 16777216, 0>>, <<1, -52, 16777216, 0>>>>,
      <<<<1, -54, 33554431, 268435452>>, <<0, -52, 16777216, 0>>, <<1, -53, 16777216, 12>>>>,
      <<<<0, -106, 18506339, 51665927>>, <<1, -105, 27759508, 211716618>>, <<0, -104, 23132923, 265909001>>, <<1, -104, 32386093, 157524236>>>>>>

\* sqrt(kb/ka) for ka = 2.0*M_PI/a (row) and kb = 2.0*M_PI/b, a and b = 1..4
SqrtTable ==
    <<<<<<0, -52, 16777216, 0>>, <<0, -53, 23726566, 109001677>>, <<0, -53, 19372660, 93336348>>, <<0, -53, 16777216, 0>>>>,
      <<<<0, -52, 23726566, 109001677>>, <<0, -52, 16777216, 0>>, <<0, -53, 27397079, 797758>>, <<0, -53, 23726566, 109001677>>>>,
      <<<<0, -52, 29058990, 140004522>>, <<0, -52, 20547809, 67707182>>, <<0, -52, 16777216, 0>>, <<0, -53, 29058990, 140004522>>>>,
      <<<<0, -51, 16777216, 0>>, <<0, -52, 23726566, 109001677>>, <<0, -52, 19372660, 93336348>>, <<0, -52, 16777216, 0>>>>>>

\* largest grid side the tables of the binary64 arithmetic reach
MaxTabulated == Len(CosTable)

\* double kx = 2.0*M_PI/NX
Wavenumber(N) == FDiv(FMul(Numbers.binary64.two, M_PI), RoundPack(0, 0, 0, N, 0))

\* kinematic viscosities, reference densities and peak velocities explored.
\* With u_max # 0 the samples pass through sqrt, cos and sin: the binary64
\* arithmetic has their values in tables, the exact arithmetic where they are
\* rational.
\* nu = 1.0/6.0 and 0.05 (Binary64(1, 6), Binary64(1, 20)); 1/18
Viscosities ==
    IF arith = "binary64"
    THEN {<<0, -55, 22369621, 89478485>>, <<0, -57, 26843545, 161061274>>}
    ELSE {<<1, 18>>}

\* rho0 = 1.0; 49
Densities ==
    IF arith = "binary64" THEN {<<0, -52, 16777216, 0>>} ELSE {<<49, 1>>}

\* u_max = 0.0 and 0.01 (Binary64(1, 100)); 4/7
PeakVelocities ==
    IF arith = "binary64"
    THEN {<<0, 0, 0, 0>>, <<0, -59, 21474836, 128849019>>}
    ELSE {<<4, 7>>}

\* sqrt(ky/kx)*cos(kx*X)*sin(ky*Y) and sqrt(kx/ky)*sin(kx*X)*cos(ky*Y), with
\* ky/kx = NX/NY
ShapeX(x, y) == SurdMul(SurdMul(SqrtRatio(lbm.NX, lbm.NY), CosAt(lbm.NX, x)), SinAt(lbm.NY, y))
ShapeY(x, y) == SurdMul(SurdMul(SqrtRatio(lbm.NY, lbm.NX), SinAt(lbm.NX, x)), CosAt(lbm.NY, y))

\* double P = -0.25*rho0*u_max*u_max*((ky/kx)*cos(2.0*kx*X)+(kx/ky)*cos(2.0*ky*Y))
\* and double rho = rho0+3.0*P, for the two ratios and the two cosines
DensityAt(kyOverKx, kxOverKy, cosTwiceX, cosTwiceY) ==
    Add(lbm.rho0,
        Mul(Three,
            Mul(Mul(Mul(Mul(Neg(Quarter), lbm.rho0), lbm.u_max), lbm.u_max),
                Add(Mul(kyOverKx, cosTwiceX), Mul(kxOverKy, cosTwiceY)))))

\* the values taylor_green(0,x,y,...) stores at site (x,y); exp(-0/td) = 1.
\* With u_max = 0 every product with u_max is a zero.
Field(x, y) ==
    IF lbm.u_max = Zero
    THEN [rho |-> lbm.rho0, ux |-> Zero, uy |-> Zero]
    ELSE IF arith = "exact"
    THEN [ux |-> Mul(Neg(lbm.u_max), SurdValue(ShapeX(x, y))),
          uy |-> Mul(lbm.u_max, SurdValue(ShapeY(x, y))),
          rho |-> DensityAt(Rat(lbm.NX, lbm.NY), Rat(lbm.NY, lbm.NX),
                            SurdValue(CosTwiceAt(lbm.NX, x)),
                            SurdValue(CosTwiceAt(lbm.NY, y)))]
    ELSE IF lbm.NX <= MaxTabulated /\ lbm.NY <= MaxTabulated
    THEN [ux |-> Mul(Mul(Mul(Neg(lbm.u_max), SqrtTable[lbm.NX][lbm.NY]),
                         CosTable[lbm.NX][x + 1]),
                     SinTable[lbm.NY][y + 1]),
          uy |-> Mul(Mul(Mul(lbm.u_max, SqrtTable[lbm.NY][lbm.NX]),
                         SinTable[lbm.NX][x + 1]),
                     CosTable[lbm.NY][y + 1]),
          rho |-> DensityAt(Div(Wavenumber(lbm.NY), Wavenumber(lbm.NX)),
                            Div(Wavenumber(lbm.NX), Wavenumber(lbm.NY)),
                            CosTwiceTable[lbm.NX][x + 1],
                            CosTwiceTable[lbm.NY][y + 1])]
    ELSE [rho |-> Wide, ux |-> Wide, uy |-> Wide]

IsRational(p) == p[1] = 0 \/ p[3] = 1

\* the model has the values taylor_green stores: u_max = 0, or the binary64
\* arithmetic on a grid within the tables, or the exact arithmetic on a grid
\* where sqrt, cos and sin give rationals
FieldRepresentable ==
    \/ lbm.u_max = Zero
    \/ /\ arith = "binary64"
       /\ lbm.NX <= MaxTabulated
       /\ lbm.NY <= MaxTabulated
    \/ /\ arith = "exact"
       /\ \A x \in 0..(lbm.NX - 1), y \in 0..(lbm.NY - 1) :
             /\ IsRational(ShapeX(x, y))
             /\ IsRational(ShapeY(x, y))
             /\ IsRational(CosTwiceAt(lbm.NX, x))
             /\ IsRational(CosTwiceAt(lbm.NY, y))
\* the values init_equilibrium stores, by position of the site in loop order
EquilibriumOfSites(mm) ==
    [i \in 1..(lbm.NX * lbm.NY) |->
       EquilibriumAt(mm.ptr_rho[Idx2(SiteOrder[i][1], SiteOrder[i][2])],
                     mm.ptr_ux[Idx2(SiteOrder[i][1], SiteOrder[i][2])],
                     mm.ptr_uy[Idx2(SiteOrder[i][1], SiteOrder[i][2])])]

\* positions in loop order of the sites that store to cell o of f0
StoresRest(o) ==
    {i \in 1..(lbm.NX * lbm.NY) : Idx2(SiteOrder[i][1], SiteOrder[i][2]) = o}

\* directions d for which the site at position i stores f1[x,y,d] to cell o
StoresDirection(i, o) ==
    {d \in 1..(ndir - 1) : Idx3(SiteOrder[i][1], SiteOrder[i][2], d) = o}

\* positions in loop order of the sites that store to cell o of f1
StoresDirectional(o) == {i \in 1..(lbm.NX * lbm.NY) : StoresDirection(i, o) # {}}

Largest(S) == CHOOSE i \in S : \A j \in S : j <= i

\* the arrays after the stores e of the loop nest, the last store to a cell
\* being the one that stays
InitStoredFrom(mm, dst, e) ==
    [mm EXCEPT
       !.ptr_f0 = [o \in DOMAIN @ |->
                     IF StoresRest(o) = {} THEN @[o]
                     ELSE e[Largest(StoresRest(o))][1]],
       ![dst] = [o \in DOMAIN @ |->
                   IF StoresDirectional(o) = {} THEN @[o]
                   ELSE e[Largest(StoresDirectional(o))]
                         [Largest(StoresDirection(Largest(StoresDirectional(o)), o)) + 1]]]

\* the arrays after the loop nest of init_equilibrium: the values stored depend
\* on the fields alone, so every cell ends with the value of the last store
\* to it in loop order (or keeps its value when nothing is stored to it)
InitStored(mm, dst) == InitStoredFrom(mm, dst, EquilibriumOfSites(mm))

\* the arrays after the stores e[1], e[2], ..., e[m] of site (0,0)
InitStoppedFrom(mm, dst, e) ==
    [mm EXCEPT
       !.ptr_f0[Idx2(0, 0)] = e[1],
       ![dst] = [o \in DOMAIN @ |->
                   IF \E d \in 1..(m - 1) : Idx3(0, 0, d) = o
                   THEN e[o - Idx3(0, 0, 0) + 1]
                   ELSE @[o]]]

\* the arrays when init_equilibrium is stopped at its first store outside the
\* extents, f1[0,0,8]: the stores before it have been made
InitStopped(mm, dst) ==
    InitStoppedFrom(mm, dst, EquilibriumAt(mm.ptr_rho[0], mm.ptr_ux[0], mm.ptr_uy[0]))

\* the nine populations of site (x,y): the rest population and the directional
\* populations held by array buf
Populations(mm, buf, x, y) ==
    [i \in 1..ndir |->
       IF i = 1 THEN mm.ptr_f0[Idx2(x, y)] ELSE mm[buf][Idx3(x, y, i - 1)]]

\* sum of the nine populations over all sites: per site f0+f1+...+f8 as the
\* kernel adds them, the sites added in loop order
Mass(mm, buf) ==
    SumFrom(Zero,
            [i \in 1..(lbm.NX * lbm.NY) |->
               Density(Populations(mm, buf, SiteOrder[i][1], SiteOrder[i][2]))],
            lbm.NX * lbm.NY)

----------------------------------------------------------------------------
(* save_scalar *)

ScalarNames == <<"rho", "ux", "uy">>
ScalarBufs == <<"ptr_rho", "ptr_ux", "ptr_uy">>

\* what an uninitialised or foreign memory cell holds, cell by cell: any bit
\* pattern, read as a zero, as a double of the normal range (4.0 stands for
\* these) or as one outside it (a subnormal, an infinity or a nan: Wide)
Garbage == {Zero, Numbers[arith].four, Wide}

RECURSIVE Digits(_)
Digits(t) == IF t < 10 THEN <<t>> ELSE Append(Digits(t \div 10), t % 10)

RECURSIVE Pad(_, _)
Pad(ds, width) == IF Len(ds) >= width THEN ds ELSE Pad(<<0>> \o ds, width)

\* floor(log10((double)NSTEPS)+1.0)
Ndigits == Len(Digits(lbm.NSTEPS))

\* sprintf(format,"%%s%%0%dd.bin",ndigits); sprintf(filename,format,name,n)
FileName(name, t) == [name |-> name, digits |-> Pad(Digits(t), Ndigits), ext |-> "bin"]

\* scalar[i,j] as the loop of save_scalar reads it: through the mapping of the
\* view, also where i or j lies outside the extents; g is what lies beyond the
\* allocation at that offset
ScalarRead(buf, i, j, g) ==
    LET off == Idx2(i, j)
    IN IF off < lbm.NX * lbm.NY THEN mem[buf][off]
       ELSE IF off < mem_size_scalar THEN Zero
       ELSE g

\* the iterations of "for i<n, for j<n" are counted from 0 in loop order:
\* iteration p has i = p \div n and j = p % n.  Those among the first r
\* that store to tmp[q]
StoresTo(q, t, r) == {p \in 0..(r - 1) : (p \div t) + (p % t) = q}

\* the loop stores to tmp[i+j] with i+j beyond the last element of tmp
SmashesTmp(t) == t >= 1 /\ 2 * (t - 1) >= lbm.NX * lbm.NY

\* the numbers of iterations the loop can make.  While every store stays
\* inside tmp it makes all n*n; a store beyond tmp is undefined and lands on
\* whatever the build keeps behind tmp, the variables of the loop among them:
\* the loop then ends with that iteration or with any later one
LoopRuns(t) ==
    IF SmashesTmp(t)
    THEN {r \in 1..(t * t) : \E q \in (lbm.NX * lbm.NY)..(2 * t) : StoresTo(q, t, r) # {}}
    ELSE {t * t}

\* the cells of tmp (counted from 1) that the first r iterations never store
\* to, or store a value read beyond the allocation behind the view: nothing
\* in the program determines what they hold
GarbageCells(t, r) ==
    {q1 \in 1..(lbm.NX * lbm.NY) :
        \/ StoresTo(q1 - 1, t, r) = {}
        \/ Idx2(Largest(StoresTo(q1 - 1, t, r)) \div t,
                Largest(StoresTo(q1 - 1, t, r)) % t) >= mem_size_scalar}

\* scalar[i,j] of iteration p
StoredBy(buf, t, p) == ScalarRead(buf, p \div t, p % t, Zero)

\* tmp after the first r iterations of "tmp[i+j]=scalar[i,j]": cell q holds
\* the value of the last iteration with i+j = q, or what it held before the
\* loop; gs gives each undetermined cell its own content
TmpAfterLoop(buf, t, r, gs) ==
    [q1 \in 1..(lbm.NX * lbm.NY) |->
       IF q1 \in GarbageCells(t, r) THEN gs[q1]
       ELSE StoredBy(buf, t, Largest(StoresTo(q1 - 1, t, r)))]

\* the loop reads scalar[i,j] beyond the allocation behind the view
ReadsPastAllocation(t) == t >= 1 /\ Idx2(t - 1, t - 1) >= mem_size_scalar

\* the first mem_size_scalar bytes of tmp, as doubles
Written(tmp) == SubSeq(tmp, 1, mem_size_scalar \div SizeofDouble)

NoIo == [name |-> "", buf |-> "", t |-> 0, file |-> <<>>, failed |-> FALSE,
         written |-> FALSE, content |-> <<>>, errmsg |-> FALSE]

NoRep == [t |-> -1, E |-> Zero]

----------------------------------------------------------------------------
(* The driver *)

save_flag(i) == (i + 1) % lbm.NSAVE = 0
msg_flag(i) == (i + 1) % lbm.NMSG = 0
\* faulty flag: the moments are published for the saves only
need_scalars_for_save(i) == save_flag(i)

need_scalars(i) == save_flag(i) \/ (msg_flag(i) /\ lbm.computeFlowProperties)

ZeroArray(len) == [o \in 0..(len - 1) |-> Zero]

\* main up to its first call.  Runs of NSTEPS timesteps contain the shorter
\* runs; NMSG is read only with computeFlowProperties set.
Init ==
    /\ arith \in Arithmetics
    /\ lbm \in [NX : 1..MaxNX, NY : 1..MaxNY, NSTEPS : {MaxSteps},
                NSAVE : 1..MaxEvery, NMSG : 1..MaxEvery,
                nu : Viscosities, rho0 : Densities, u_max : PeakVelocities,
                computeFlowProperties : BOOLEAN]
    /\ lbm.NX * lbm.NY <= MaxSites
    /\ FieldRepresentable
    /\ lbm.computeFlowProperties \/ lbm.NMSG = 1
    /\ mem = [ptr_f0 |-> ZeroArray(lbm.NX * lbm.NY),
              ptr_f1 |-> ZeroArray(lbm.NX * lbm.NY * m + 1),
              ptr_f2 |-> ZeroArray(lbm.NX * lbm.NY * m + 1),
              ptr_rho |-> ZeroArray(lbm.NX * lbm.NY),
              ptr_ux |-> ZeroArray(lbm.NX * lbm.NY),
              ptr_uy |-> ZeroArray(lbm.NX * lbm.NY)]
    /\ f1 = "ptr_f1"
    /\ f2 = "ptr_f2"
    /\ n = 0
    /\ pc = "taylor_green"
    /\ k = 0
    /\ io = NoIo
    /\ rep = NoRep
    /\ acc = {}
    /\ gens = <<>>
    /\ published = -1
    /\ mass0 = Zero
    /\ pending = {}
    /\ expect = <<>>

\* the arrays after the stores rho[x,y], ux[x,y], uy[x,y] of the loop nest of
\* taylor_green, fld being the values by cell
FieldStored(mm, fld) ==
    [mm EXCEPT
       !.ptr_rho = [o \in DOMAIN @ |-> fld[o].rho],
       !.ptr_ux = [o \in DOMAIN @ |-> fld[o].ux],
       !.ptr_uy = [o \in DOMAIN @ |-> fld[o].uy]]

\* lbm.taylor_green(0,rho,ux,uy)
TaylorGreen ==
    /\ pc = "taylor_green"
    /\ mem' = FieldStored(mem, [o \in DOMAIN mem.ptr_rho |->
                                   Field(o \div lbm.NY, o % lbm.NY)])
    /\ published' = 0
    /\ pc' = "init_equilibrium"
    /\ acc' = {}
    /\ UNCHANGED <<arith, lbm, f1, f2, n, k, io, rep, gens, mass0, pending, expect>>

\* lbm.init_equilibrium(f0,f1,rho,ux,uy).  The stores to f1[x,y,8] lie outside
\* the third extent of the view: a build whose mdspan checks its indices stops
\* at the first of them, any other build stores through the mapping.
InitEquilibrium ==
    /\ pc = "init_equilibrium"
    /\ \E checked \in BOOLEAN :
          IF checked /\ (\E a \in InitAccesses(f1, 0, 0) : a.view = "f1" /\ a.d >= m)
          THEN /\ pc' = "aborted"
               /\ acc' = {a \in InitAccesses(f1, 0, 0) : a.d <= m}
               /\ mem' = InitStopped(mem, f1)
               /\ mass0' = mass0
          ELSE /\ pc' = "save0"
               /\ acc' = UNION {InitAccesses(f1, s[1], s[2]) : s \in Sites}
               /\ mem' = InitStored(mem, f1)
               /\ mass0' = Mass(mem', f1)
    /\ k' = 0
    /\ UNCHANGED <<arith, lbm, f1, f2, n, io, rep, gens, published, pending, expect>>

\* position of main after a group of three save_scalar calls
AfterSaves ==
    IF pc = "save0"
    THEN (IF lbm.computeFlowProperties THEN "report0" ELSE "loop")
    ELSE "swap"

\* lbm.save_scalar(name,scalar,t): one of the three calls of a group.
\* openOK: fopen returns a stream; writeOK: fwrite writes all bytes.
\* fwrite and fclose on the null stream of a failed fopen, a store beyond tmp
\* and a read beyond the allocation are undefined: the process dies there
\* (crash) or goes on, after a store beyond tmp with a loop that made r of
\* its iterations.  ferror is called on the closed stream, so whether the
\* error message is printed (errSeen) is not determined by the code.
SaveScalar ==
    /\ pc \in {"save0", "save"}
    /\ LET t == IF pc = "save0" THEN 0 ELSE n + 1
           ub == ReadsPastAllocation(t) \/ SmashesTmp(t)
       IN \E openOK, writeOK, errSeen, crash \in BOOLEAN :
          \E r \in (IF openOK /\ writeOK /\ ~crash THEN LoopRuns(t) ELSE {t * t}) :
          \E gs \in IF openOK /\ writeOK /\ ~crash
                    THEN [GarbageCells(t, r) -> Garbage]
                    ELSE {[q \in GarbageCells(t, r) |-> Zero]} :
             /\ crash => (ub \/ ~openOK)
             /\ ~openOK => ~writeOK
             /\ crash => ~errSeen
             /\ io' = [name |-> ScalarNames[k + 1], buf |-> ScalarBufs[k + 1], t |-> t,
                       file |-> FileName(ScalarNames[k + 1], t),
                       failed |-> ~openOK \/ ~writeOK,
                       written |-> openOK /\ writeOK /\ ~crash,
                       content |-> IF openOK /\ writeOK /\ ~crash
                                   THEN Written(TmpAfterLoop(ScalarBufs[k + 1], t, r, gs))
                                   ELSE <<>>,
                       errmsg |-> errSeen]
             /\ pc' = IF crash THEN "crashed" ELSE IF k < 2 THEN pc ELSE AfterSaves
             /\ k' = IF crash THEN k ELSE (k + 1) % 3
    /\ acc' = {}
    /\ UNCHANGED <<arith, lbm, mem, f1, f2, n, rep, gens, published, mass0, pending, expect>>

\* E of compute_flow_properties: E = 0.0, then E += rho*(ux*ux + uy*uy) in
\* loop order
Energy ==
    SumFrom(Zero,
            [i \in 1..(lbm.NX * lbm.NY) |->
               LET o == Idx2(SiteOrder[i][1], SiteOrder[i][2])
               IN Mul(mem.ptr_rho[o],
                      Add(Mul(mem.ptr_ux[o], mem.ptr_ux[o]), Mul(mem.ptr_uy[o], mem.ptr_uy[o])))],
            lbm.NX * lbm.NY)

\* lbm.report_flow_properties(t,rho,ux,uy), before the loop and inside it
Report ==
    /\ pc \in {"report0", "report"}
    /\ rep' = [t |-> IF pc = "report0" THEN 0 ELSE n + 1, E |-> Energy]
    /\ n' = IF pc = "report0" THEN n ELSE n + 1
    /\ pc' = "loop"
    /\ acc' = {}
    /\ io' = NoIo
    /\ UNCHANGED <<arith, lbm, mem, f1, f2, k, gens, published, mass0, pending, expect>>

\* position of main after stream_collide_save returned
AfterKernel == IF save_flag(n) THEN "save" ELSE "swap"

\* loop test, the three flags and the call
\* lbm.stream_collide_save(f0,f1,f2,rho,ux,uy,need_scalars), up to its loop nest
StreamCollideSave ==
    /\ pc = "loop"
    /\ n < lbm.NSTEPS
    /\ pending' = Sites
    /\ acc' = {}
    /\ gens' = Append(gens, [rd |-> KernelArgs.src, wr |-> KernelArgs.dst])
    /\ pc' = "sweep"
    /\ k' = 0
    /\ io' = NoIo
    /\ UNCHANGED <<arith, lbm, mem, f1, f2, n, rep, published, mass0, expect>>

\* the loop body of stream_collide_save for the pending site s; after the
\* last site the call returns
LoopBody(s) ==
    /\ mem' = SiteUpdate(mem, KernelArgs.src, KernelArgs.dst, s[1], s[2], need_scalars(n))
    /\ Representable(mem', KernelArgs.dst, s[1], s[2])
    /\ acc' = acc \cup KernelAccesses(KernelArgs.src, KernelArgs.dst, s[1], s[2], need_scalars(n))
    /\ pending' = pending \ {s}
    /\ pc' = IF pending = {s} THEN AfterKernel ELSE pc
    /\ published' = IF pending = {s} /\ need_scalars(n) THEN n + 1 ELSE published
    /\ UNCHANGED <<arith, lbm, f1, f2, n, k, io, rep, gens, mass0>>

\* the site the loops "for y ... for x ..." visit after the sites already updated
NextInRowOrder == SiteOrder[lbm.NX * lbm.NY - Cardinality(pending) + 1]

\* one iteration of the loop nest, in the order of the code
SiteRowOrder ==
    /\ pc = "sweep"
    /\ LoopBody(NextInRowOrder)
    /\ UNCHANGED expect

\* faulty assignments: both views on ptr_f2
RebindBoth == [f1 |-> "ptr_f2", f2 |-> "ptr_f2"]

\* f1 = mdspan(ptr_f2.get(),...); f2 = mdspan(ptr_f1.get(),...);
Rebind == [f1 |-> "ptr_f2", f2 |-> "ptr_f1"]

\* the two view assignments after the saves, and the end of the iteration
\* when nothing is reported
Swap ==
    /\ pc = "swap"
    /\ f1' = Rebind.f1
    /\ f2' = Rebind.f2
    /\ IF msg_flag(n) /\ lbm.computeFlowProperties
       THEN pc' = "report" /\ n' = n
       ELSE pc' = "loop" /\ n' = n + 1
    /\ acc' = {}
    /\ io' = NoIo
    /\ UNCHANGED <<arith, lbm, mem, k, rep, gens, published, mass0, pending, expect>>

\* the loop ends after NSTEPS iterations
Finish ==
    /\ pc = "loop"
    /\ n = lbm.NSTEPS
    /\ pc' = "done"
    /\ acc' = {}
    /\ UNCHANGED <<arith, lbm, mem, f1, f2, n, k, io, rep, gens, published, mass0, pending, expect>>

Next ==
    \/ TaylorGreen
    \/ InitEquilibrium
    \/ SaveScalar
    \/ Report
    \/ StreamCollideSave
    \/ SiteRowOrder
    \/ Swap
    \/ Finish

Spec == Init /\ [][Next]_vars

----------------------------------------------------------------------------
(* The sweep of stream_collide_save taken site by site, in any order *)

InitSites ==
    /\ Init
    /\ lbm.NMSG = lbm.NSAVE
    /\ lbm.computeFlowProperties

\* one iteration of the loop nest for any pending site; expect follows the
\* loop nest of the code from the same arrays, one site per iteration
SiteAnyOrder ==
    /\ pc = "sweep"
    /\ expect' = SiteUpdate(IF pending = Sites THEN mem ELSE expect,
                            KernelArgs.src, KernelArgs.dst,
                            NextInRowOrder[1], NextInRowOrder[2], need_scalars(n))
    /\ \E s \in pending : LoopBody(s)

NextSites ==
    \/ TaylorGreen
    \/ InitEquilibrium
    \/ SaveScalar
    \/ Report
    \/ StreamCollideSave
    \/ SiteAnyOrder
    \/ Swap
    \/ Finish

SpecSites == InitSites /\ [][NextSites]_vars

----------------------------------------------------------------------------
(* Properties of the run *)

\* a call of stream_collide_save has returned and main has not gone on yet
SweepDone == pending = {} /\ acc # {} /\ gens # <<>>

\* C1: in every timestep after the first, stream_collide_save reads the array
\* it wrote in the timestep before and writes the array it read in the
\* timestep before, so the two arrays change roles on every timestep.
C1_GenerationsAlternate ==
    \A i \in 2..Len(gens) :
        /\ gens[i].rd = gens[i - 1].wr
        /\ gens[i].wr = gens[i - 1].rd

\* C4: whatever timestep index save_scalar is given, the file it writes holds
\* the NX*NY values of the scalar field, one per site, in row-major order.
C4_FileIsTheField ==
    io.written => io.content = [q \in 1..(lbm.NX * lbm.NY) |-> mem[io.buf][q - 1]]

\* C5: when the file cannot be opened or written, save_scalar prints the
\* error message with the file name and returns, and the run goes on.
C5_ExportFailureIsRecoverable ==
    /\ io.failed => io.errmsg
    /\ pc # "crashed"

\* C9: in exact arithmetic, after every timestep the sum of all populations,
\* the rest populations plus the directional populations the timestep wrote,
\* equals the sum after init_equilibrium.
C9_MassConserved ==
    (arith = "exact" /\ SweepDone /\ ~IsWide(Mass(mem, gens[Len(gens)].wr))) =>
        Mass(mem, gens[Len(gens)].wr) = mass0

\* C10: every access init_equilibrium and stream_collide_save make through the
\* views f1 and f2 has x < NX, y < NY and d < ndir-1, the extents main gives
\* those views.
C10_AccessesWithinExtents ==
    \A a \in acc :
        a.view \in {"f1", "f2"} => (a.x < lbm.NX /\ a.y < lbm.NY /\ a.d < m)

\* C2 as stated: no cell that holds a population the sweep reads, rest or
\* directional, is written in the same sweep.
C2_NoCellReadAndWritten ==
    SweepDone =>
        \A a \in acc : (a.op = "r" /\ a.view \in {"f0", "f1"}) =>
            \A b \in acc : b.op = "w" => ~(b.buf = a.buf /\ b.off = a.off)

\* C2 amended: the directional populations are read from the array behind f1
\* and written to the array behind f2, these are two arrays, and the only
\* cell the sweep both reads and writes is the rest population of a site,
\* read and written by the update of that site.
C2_DirectionalNotInPlace ==
    SweepDone =>
        /\ f1 # f2
        /\ \A a \in acc : a.view = "f1" => (a.op = "r" /\ a.buf = f1)
        /\ \A a \in acc : a.view = "f2" => (a.op = "w" /\ a.buf = f2)
        /\ \A a \in acc : a.op = "r" =>
              \A b \in acc : (b.op = "w" /\ b.buf = a.buf /\ b.off = a.off) =>
                  (a.view = "f0" /\ b.view = "f0" /\ a.site = b.site)

\* a sweep of a later timestep has returned: f1 is the view main assigned
C2_SweepAfterRebind ==
    /\ SweepDone
    /\ Len(gens) >= 2
    /\ lbm.NX * lbm.NY > 1
    /\ \E a \in acc : a.view = "f1" /\ a.buf = "ptr_f2"
    /\ \E a \in acc : a.view = "f2" /\ a.buf = "ptr_f1"

\* C6: whenever main is about to save the scalar fields or to report flow
\* properties for timestep n+1, the sweep of this iteration has returned and
\* it stored rho, ux and uy (they carry the label n+1).
C6_ConsumersReadThisTimestep ==
    pc \in {"save", "report"} => (pending = {} /\ published = n + 1)

\* a report in an iteration that does not save
C6_ReportWithoutSave ==
    /\ pc = "report"
    /\ ~save_flag(n)
    /\ n >= 1
    /\ published = n + 1

\* velocities of the directions 1..8 in the numbering 6 2 5 / 3 0 1 / 7 4 8
c_x == <<1, 0, -1, 0, 1, -1, -1, 1>>
c_y == <<0, 1, 0, -1, 1, 1, -1, -1>>

\* C7: the update of site (x,y) reads population i, for every i in 1..8, at
\* ((x - c_ix) mod NX, (y - c_iy) mod NY) of the array behind f1, inside the
\* grid, and the rest population at (x,y).
C7_PeriodicPull ==
    (acc # {} /\ gens # <<>>) =>
        /\ \A a \in acc : (a.op = "r" /\ a.view = "f1") =>
              /\ a.d \in 1..(ndir - 1)
              /\ a.x = (a.site[1] - c_x[a.d]) % lbm.NX
              /\ a.y = (a.site[2] - c_y[a.d]) % lbm.NY
              /\ a.x \in 0..(lbm.NX - 1)
              /\ a.y \in 0..(lbm.NY - 1)
              /\ a.buf = f1
        /\ \A a \in acc : (a.op = "r" /\ a.view = "f0") =>
              (a.x = a.site[1] /\ a.y = a.site[2])
        /\ \A s \in Sites \ pending :
              /\ \A i \in 1..(ndir - 1) :
                    \E a \in acc : a.op = "r" /\ a.view = "f1" /\ a.site = s /\ a.d = i
              /\ \E a \in acc : a.op = "r" /\ a.view = "f0" /\ a.site = s

\* a sweep over a grid on which west and east neighbours differ has returned
C7_SweepOnWideGrid ==
    /\ SweepDone
    /\ lbm.NX = 3
    /\ lbm.NY = 1
    /\ \E a \in acc : a.op = "r" /\ a.view = "f1" /\ a.site = <<0, 0>> /\ a.d = 5
                      /\ a.x = 2 /\ a.y = 0
    /\ \E a \in acc : a.op = "r" /\ a.view = "f1" /\ a.site = <<0, 0>> /\ a.d = 6
                      /\ a.x = 1 /\ a.y = 0

\* the populations of the state of rest: w0*rho0, ws*rho0 (directions 1..4),
\* wd*rho0 (directions 5..8)
RestPopulation(d) == Mul(IF d = 0 THEN w0 ELSE IF d <= 4 THEN ws ELSE wd, lbm.rho0)

\* main is between two calls: f1 is the array the next timestep reads
BetweenTimesteps == pc \in {"save0", "report0", "loop", "report", "done"}

\* C8 as stated: started from rho = rho0, ux = uy = 0 everywhere, before and
\* after every timestep each rest population equals w0*rho0 and each
\* directional population of the array read next equals ws*rho0 (directions
\* 1..4) or wd*rho0 (5..8).
C8_QuiescentFixedPoint ==
    (lbm.u_max = Zero /\ BetweenTimesteps) =>
        \A s \in Sites :
            /\ mem.ptr_f0[Idx2(s[1], s[2])] = RestPopulation(0)
            /\ \A d \in 1..(ndir - 1) : mem[f1][Idx3(s[1], s[2], d)] = RestPopulation(d)

\* 2^-47, the relative change the rounding of one timestep is allowed
RoundingPerStep == <<0, -99, 16777216, 0>>

\* |a - b| <= steps * 2^-47 * |b|; in exact arithmetic nothing is rounded
\* and the two are equal
Near(a, b, steps) ==
    \/ a = b
    \/ /\ IsBinary64(a)
       /\ IsBinary64(b)
       /\ steps > 0
       /\ Sub(a, b) # FZero
       /\ MagGeq(FMul(FMul(b, RoundingPerStep), RoundPack(0, 0, 0, steps, 0)), Sub(a, b))

\* C8 amended: started from rho = rho0, ux = uy = 0 everywhere, before and
\* after every timestep the state is uniform and at rest: every site holds
\* the populations of site (0,0), populations of equal weight are equal, the
\* stored velocities are exactly 0, and after t timesteps each population
\* differs from w_i*rho0 by at most t*2^-47*w_i*rho0, the rounding of the
\* double arithmetic (by nothing in exact arithmetic).
C8_QuiescentUpToRounding ==
    (lbm.u_max = Zero /\ BetweenTimesteps) =>
        /\ \A d \in {0, 1, 5} :
              Near(Populations(mem, f1, 0, 0)[d + 1], RestPopulation(d), Len(gens))
        /\ \A s \in Sites : \A d \in 0..(ndir - 1) :
              Populations(mem, f1, s[1], s[2])[d + 1]
                 = Populations(mem, f1, 0, 0)[IF d = 0 THEN 1 ELSE IF d <= 4 THEN 2 ELSE 6]
        /\ \A s \in Sites :
              mem.ptr_ux[Idx2(s[1], s[2])] = Zero /\ mem.ptr_uy[Idx2(s[1], s[2])] = Zero

\* a run of the compiled program from the state of rest has ended after
\* three timesteps and its rest populations are no longer w0*rho0
C8_RestRunDrifted ==
    /\ arith = "binary64"
    /\ lbm.u_max = Zero
    /\ pc = "done"
    /\ n >= 3
    /\ lbm.NX * lbm.NY > 1
    /\ Len(gens) = n
    /\ mem.ptr_f0[0] # RestPopulation(0)

\* C3: with the sites of a sweep updated in any order, each cell the sweep
\* writes is written for one site only and is neither read nor written for
\* another site, and when the sweep returns the arrays (rest populations,
\* the array written, rho, ux, uy) are those of the row-by-row sweep.
C3_SweepOrderIndependent ==
    SweepDone =>
        /\ \A a \in acc : a.op = "w" =>
              \A b \in acc : (b.buf = a.buf /\ b.off = a.off) => b.site = a.site
        /\ mem = expect

\* in a sweep over a Taylor-Green field with differing densities every site
\* but the first of the row-by-row order has been updated: the arrays differ
\* from those of the row-by-row sweep after as many sites
C3_FirstSiteLast ==
    /\ pc = "sweep"
    /\ lbm.u_max # Zero
    /\ lbm.NX * lbm.NY >= 3
    /\ mem.ptr_rho[0] # mem.ptr_rho[1]
    /\ pending = {SiteOrder[1]}
    /\ mem # expect

====
